---------------------------- MODULE Spec2Model ----------------------------
(***************************************************************************)
(* Model of the course-generator services: the prompted-generation         *)
(* pipeline (CourseGenerator, QuizGen, HomeworkGen, SolutionGen) run        *)
(* against a completion service whose every answer is nondeterministic,    *)
(* the video lookup adapter (TopicGen.get_video), the tool dispatcher      *)
(* handle_call_tool in front of them (Spec), and two quiz requests running *)
(* concurrently on one QuizGen (SpecConc).                                 *)
(*                                                                         *)
(* A completion text is a sequence of tokens:                              *)
(*   "FENCE" a code-fence marker (three backquotes)  "json" the fence tag  *)
(*   "NL"   a line break                 "SP"   a blank                    *)
(*   "JA","JB"  the first and second half of one JSON document             *)
(*   "X"    prose that is not JSON                                         *)
(* A JSON document is a record [t, keys, bad, items]: its type, the keys   *)
(* present (objects), the present keys whose value has the wrong type, and *)
(* its elements (arrays; for a course object the "sessions" array).        *)
(***************************************************************************)
EXTENDS Integers, Sequences, FiniteSets, TLC

\* ------------------------------------------------------------------ bounds
MaxRetries == 3
MaxItems == 2
MaxVideos == 3

\* default of the max_retries parameter of _call_llm
DefaultMaxRetries == 2
\* acceptance window of get_video, in whole minutes
MinMinutes == 15
MaxMinutes == 20

\* ------------------------------------------------------------ text helpers
Whitespace == {"NL", "SP"}

Last(s) == s[Len(s)]
Front(s) == SubSeq(s, 1, Len(s) - 1)

RECURSIVE LStrip(_)
LStrip(s) ==
    IF s # <<>> /\ Head(s) \in Whitespace THEN LStrip(Tail(s)) ELSE s

RECURSIVE RStrip(_)
RStrip(s) ==
    IF s # <<>> /\ Last(s) \in Whitespace THEN RStrip(Front(s)) ELSE s

\* str.strip()
Strip(s) == RStrip(LStrip(s))

\* str.startswith(FENCE), str.endswith(FENCE)
StartsWithFence(s) == s # <<>> /\ Head(s) = "FENCE"
EndsWithFence(s) == s # <<>> /\ Last(s) = "FENCE"

\* str.split("\n"): the pieces between line breaks, empty ones kept
RECURSIVE SplitNL(_, _)
SplitNL(s, cur) ==
    IF s = <<>> THEN <<cur>>
    ELSE IF Head(s) = "NL" THEN <<cur>> \o SplitNL(Tail(s), <<>>)
    ELSE SplitNL(Tail(s), Append(cur, Head(s)))

\* str.splitlines(): no line for the empty text, none after a final line break
SplitLines(s) ==
    IF s = <<>> THEN <<>>
    ELSE IF Last(s) = "NL" THEN Front(SplitNL(s, <<>>))
    ELSE SplitNL(s, <<>>)

\* "\n".join(lines)
RECURSIVE JoinNL(_)
JoinNL(lines) ==
    IF lines = <<>> THEN <<>>
    ELSE IF Len(lines) = 1 THEN lines[1]
    ELSE lines[1] \o <<"NL">> \o JoinNL(Tail(lines))

\* FENCE+json in text
HasJsonFence(s) ==
    \E i \in 1..(Len(s) - 1) : s[i] = "FENCE" /\ s[i + 1] = "json"

\* index of the first FENCE+json of s (s has one)
FirstJsonFence(s) ==
    CHOOSE i \in 1..(Len(s) - 1) :
        /\ s[i] = "FENCE" /\ s[i + 1] = "json"
        /\ \A j \in 1..(i - 1) : ~(s[j] = "FENCE" /\ s[j + 1] = "json")

\* text.split(FENCE)[0]: what precedes the first fence marker
RECURSIVE BeforeFence(_)
BeforeFence(s) ==
    IF s = <<>> \/ Head(s) = "FENCE" THEN <<>>
    ELSE <<Head(s)>> \o BeforeFence(Tail(s))

\* text.split(FENCE+json)[1].split(FENCE)[0]: from the end of the first
\* FENCE+json to the next fence marker
AfterJsonFence(s) ==
    BeforeFence(SubSeq(s, FirstJsonFence(s) + 2, Len(s)))

\* json.loads accepts blanks and line breaks around and between the parts of
\* the document, and nothing else besides the one whole document
NonBlank(tok) == tok \notin Whitespace
JsonLoadsOk(s) == SelectSeq(s, NonBlank) = <<"JA", "JB">>


\* --------------------------------------------------------------- sanitizers
\* CourseGenerator._call_llm / QuizGen._call_llm: strip(), then drop the first
\* line of a text that starts with a fence, then the last line if the rest
\* ends with a fence
DropFirstLine(s) == JoinNL(Tail(SplitLines(s)))
DropLastLine(s) == JoinNL(Front(SplitLines(s)))

StripCodeFences(raw_text) ==
    LET text == Strip(raw_text)
    IN  IF StartsWithFence(text)
        THEN LET inner == DropFirstLine(text)
             IN  IF EndsWithFence(inner) THEN DropLastLine(inner) ELSE inner
        ELSE text

\* HomeworkGen.generate_homework / SolutionGen.generate_solution: strip(),
\* then, only if the text holds FENCE+json, what lies between it and the next
\* fence, stripped
RemoveJsonFence(raw_text) ==
    LET text == Strip(raw_text)
    IN  IF HasJsonFence(text) THEN Strip(AfterJsonFence(text)) ELSE text

\* ------------------------------------------------- completion-service texts
\* What the completion service may answer: optional prose before, an
\* optional opening fence (tagged or not), a body (a document on one line or
\* two, prose, a document cut short), an optional closing fence (on its own
\* line or not), the whole bare or padded with a blank and a line break.
Payloads == { <<"JA", "JB">>, <<"JA", "NL", "JB">> }
Bodies == Payloads \cup { <<"X">>, <<"JA">> }
Leads == { <<>>, <<"X", "NL">> }
Opens == { <<>>, <<"FENCE", "NL">>, <<"FENCE", "json", "NL">> }
Closes == { <<>>, <<"NL", "FENCE">>, <<"FENCE">> }
Padded(s) == <<"SP">> \o s \o <<"NL">>

UnpaddedTexts ==
    { l \o o \o b \o c : l \in Leads, o \in Opens, b \in Bodies, c \in Closes }
RawTexts == UnpaddedTexts \cup { Padded(s) : s \in UnpaddedTexts }

\* a payload wrapped in a code fence, the opening fence tagged or not
Fenced(tag, payload) ==
    <<"FENCE">> \o tag \o <<"NL">> \o payload \o <<"NL", "FENCE">>
FenceTags == { <<>>, <<"json">> }
FencedTexts == { Fenced(tag, p) : tag \in FenceTags, p \in Payloads }

\* The service's side of an answer, whatever the caller makes of it:
\*   "valid"   a JSON document, bare or wrapped in a code fence
\*   "invalid" no whole JSON document in the text
\*   "odd"     a whole document among other text
IsDocToken(tok) == tok \in {"JA", "JB"}
TextClass(raw_text) ==
    IF Strip(raw_text) \in (Payloads \cup FencedTexts) THEN "valid"
    ELSE IF SelectSeq(raw_text, IsDocToken) # <<"JA", "JB">> THEN "invalid"
    ELSE "odd"

\* ------------------------------------------------------------ JSON documents
QuestionFields == {"question", "options", "correct_answer"}
HomeworkFields == {"problem_statement", "skeleton_code", "hints"}
SolutionFields == {"problem_statement", "skeleton_code", "solution_code"}
SessionFields == {"session_no", "session_name", "learning_objectives", "topics"}
CourseFields == {"subject", "level", "total_sessions", "sessions"}

JsonValue(type, keys, bad, items) ==
    [t |-> type, keys |-> keys, bad |-> bad, items |-> items]
NoDoc == JsonValue("none", {}, {}, <<>>)
JsonNull == JsonValue("null", {}, {}, <<>>)
JsonNumber == JsonValue("number", {}, {}, <<>>)
EmptyDict == JsonValue("object", {}, {}, <<>>)
EmptyList == JsonValue("array", {}, {}, <<>>)

StringItem == [t |-> "string", keys |-> {}, bad |-> {}]

\* the elements an array may hold: an object with every field of the schema,
\* one without its first field, one without its last, one whose first field
\* has the wrong type, and a bare string
ItemsOf(fields, first, last) ==
    { [t |-> "object", keys |-> fields, bad |-> {}],
      [t |-> "object", keys |-> fields \ {first}, bad |-> {}],
      [t |-> "object", keys |-> fields \ {last}, bad |-> {}],
      [t |-> "object", keys |-> fields, bad |-> {first}],
      StringItem }

SeqsUpTo(S, n) == UNION { [1..k -> S] : k \in 0..n }

ArraysOf(items) ==
    { JsonValue("array", {}, {}, s) : s \in SeqsUpTo(items, MaxItems) }

QuestionItems == ItemsOf(QuestionFields, "question", "options")
HomeworkItems == ItemsOf(HomeworkFields, "problem_statement", "hints")
SessionItems == ItemsOf(SessionFields, "session_no", "topics")

ValidSession == [t |-> "object", keys |-> SessionFields, bad |-> {}]

\* {} and an object without "sessions"; objects with every key and any
\* sessions array; one without "subject"; one whose subject has the wrong type
CourseObjects ==
    { JsonValue("object", k, {}, <<>>) : k \in { {}, {"subject"} } }
    \cup { JsonValue("object", CourseFields, {}, s) :
             s \in SeqsUpTo(SessionItems, MaxItems) }
    \cup { JsonValue("object", CourseFields \ {"subject"}, {}, <<ValidSession>>),
           JsonValue("object", CourseFields, {"subject"}, <<ValidSession>>) }

SolutionObjects ==
    { JsonValue("object", SolutionFields, {}, <<>>),
      JsonValue("object", SolutionFields \ {"solution_code"}, {}, <<>>),
      JsonValue("object", SolutionFields, {"solution_code"}, <<>>),
      EmptyDict }

Scalars == { JsonNull, JsonNumber }

\* Python truthiness of a parsed value ("if not parsed"); the number is not 0
Truthy(v) ==
    CASE v.t = "object" -> v.keys # {}
      [] v.t = "array" -> v.items # <<>>
      [] v.t = "number" -> TRUE
      [] OTHER -> FALSE

\* Model(**item) of a pydantic model whose fields are all required: the item
\* is a mapping, holds every field, and every field has its type
Validates(item, fields) ==
    item.t = "object" /\ fields \subseteq item.keys /\ item.bad \cap fields = {}

\* ------------------------------------------------------------------ results
Return(what, items) == [kind |-> "return", what |-> what, items |-> items]
Raise(exception) == [kind |-> "raise", what |-> exception, items |-> <<>>]
NoResult == [kind |-> "none", what |-> "", items |-> <<>>]

\* TopicQuestion / HomeworkProblem built from element i of the payload
FromPayload(i) == [src |-> "payload", idx |-> i]

\* [Model(**q) for q valid], in payload order, the others skipped
RECURSIVE HydrateValid(_, _, _)
HydrateValid(items, i, fields) ==
    IF i > Len(items) THEN <<>>
    ELSE IF Validates(items[i], fields)
         THEN <<FromPayload(i)>> \o HydrateValid(items, i + 1, fields)
         ELSE HydrateValid(items, i + 1, fields)

HydrateAll(items) == [i \in 1..Len(items) |-> FromPayload(i)]

\* the fallback question of generate_quiz
PlaceholderQuestion(video_title) ==
    [src |-> "fallback", idx |-> 0,
     question |-> <<"What is the main concept of '", video_title, "'?">>,
     options |-> <<"A", "B", "C", "D">>,
     correct_answer |-> "A"]

\* QuizGen.generate_quiz after _call_llm: the fallback for a falsy payload,
\* then one TopicQuestion per element that validates. Iterating an object
\* yields its keys, strings that never validate; a number is not iterable.
QuizResult(questions_data, video_title) ==
    IF ~Truthy(questions_data)
    THEN Return("list", <<PlaceholderQuestion(video_title)>>)
    ELSE CASE questions_data.t = "array" ->
                Return("list", HydrateValid(questions_data.items, 1, QuestionFields))
           [] questions_data.t = "object" -> Return("list", <<>>)
           [] OTHER -> Raise("TypeError")

\* Session(...) of element i: each field from the payload, or its default
HydrateSession(s, i) ==
    [src |-> "payload", idx |-> i,
     session_no |-> IF "session_no" \in s.keys THEN "payload" ELSE "0",
     session_name |-> IF "session_name" \in s.keys THEN "payload" ELSE "",
     learning_objectives |->
        IF "learning_objectives" \in s.keys THEN "payload" ELSE "[]",
     topics |-> IF "topics" \in s.keys THEN "payload" ELSE "[]"]

\* a course made up when nothing was parsed, instead of the ValueError
CourseResultFabricated(parsed, title) ==
    IF ~Truthy(parsed) \/ parsed.t # "object"
    THEN Return("Course", <<[subject |-> title, sessions |-> <<>>]>>)
    ELSE Return("Course",
           <<[subject |-> title,
              sessions |-> [i \in 1..Len(parsed.items) |->
                               [src |-> "payload", idx |-> i]]]>>)

\* CourseGenerator.generate_course_structure after _call_llm
CourseResult(parsed, title) ==
    IF ~Truthy(parsed) THEN Raise("ValueError")
    ELSE IF parsed.t # "object" THEN Raise("AttributeError")
    ELSE LET sessions_data ==
                 IF "sessions" \in parsed.keys THEN parsed.items ELSE <<>>
             n == Len(sessions_data)
         IN  IF \E i \in 1..n : sessions_data[i].t # "object"
             THEN Raise("AttributeError")
             ELSE IF \/ \E i \in 1..n : sessions_data[i].bad # {}
                     \/ parsed.bad # {}
             THEN Raise("ValidationError")
             ELSE Return("Course",
                    <<[subject |-> IF "subject" \in parsed.keys
                                   THEN "payload" ELSE title,
                       sessions |-> [i \in 1..n |->
                                        HydrateSession(sessions_data[i], i)]]>>)

\* HomeworkGen.generate_homework after json.loads: every element must
\* validate; any exception is logged and the function falls off its end
HomeworkResult(loaded, data) ==
    IF ~loaded THEN Return("None", <<>>)
    ELSE CASE data.t = "array" ->
                IF \A i \in 1..Len(data.items) :
                       Validates(data.items[i], HomeworkFields)
                THEN Return("list", HydrateAll(data.items))
                ELSE Return("None", <<>>)
           [] data.t = "object" ->
                IF data.keys = {} THEN Return("list", <<>>)
                ELSE Return("None", <<>>)
           [] OTHER -> Return("None", <<>>)

\* SolutionGen.generate_solution after json.loads: ProblemSolution(**data),
\* or on any exception the fallback built from the caller's arguments
FallbackSolution(problem_statement, skeleton_code) ==
    [src |-> "fallback",
     problem_statement |-> problem_statement,
     skeleton_code |-> skeleton_code,
     solution_code |-> "# Unable to generate solution"]

\* the handler lets the exception out instead of building the fallback
SolutionResultRaising(loaded, data, problem_statement, skeleton_code) ==
    IF loaded /\ Validates(data, SolutionFields)
    THEN Return("ProblemSolution",
                <<[src |-> "payload",
                   problem_statement |-> "payload",
                   skeleton_code |-> "payload",
                   solution_code |-> "payload"]>>)
    ELSE Raise("Exception")

SolutionResult(loaded, data, problem_statement, skeleton_code) ==
    IF loaded /\ Validates(data, SolutionFields)
    THEN Return("ProblemSolution",
                <<[src |-> "payload",
                   problem_statement |-> "payload",
                   skeleton_code |-> "payload",
                   solution_code |-> "payload"]>>)
    ELSE Return("ProblemSolution",
                <<FallbackSolution(problem_statement, skeleton_code)>>)

\* ------------------------------------------------------------- video lookup
Digit == <<"0", "1", "2", "3", "4", "5", "6", "7", "8", "9">>
IsDigit(c) == \E d \in 1..10 : Digit[d] = c
DigitValue(c) == (CHOOSE d \in 1..10 : Digit[d] = c) - 1

\* the search service's rendering of a number of minutes
RECURSIVE Decimal(_)
Decimal(n) ==
    IF n < 10 THEN <<Digit[n + 1]>>
    ELSE Decimal(n \div 10) \o <<Digit[(n % 10) + 1]>>

\* length.split(":")[0]
RECURSIVE BeforeColon(_)
BeforeColon(s) ==
    IF s = <<>> \/ Head(s) = ":" THEN <<>>
    ELSE <<Head(s)>> \o BeforeColon(Tail(s))

\* int(text): defined for a non-empty run of digits, ValueError otherwise
IntOk(s) == s # <<>> /\ \A i \in 1..Len(s) : IsDigit(s[i])
RECURSIVE IntOf(_)
IntOf(s) ==
    IF s = <<>> THEN 0 ELSE 10 * IntOf(Front(s)) + DigitValue(Last(s))

\* the whole minutes the service may report, as "M:00", the hour form
\* "1:16:00", and a length that is not a time
ReportedMinutes == {0, 5, 10, 14, 15, 16, 20, 21, 25, 30}
VideoLengths ==
    { Decimal(m) \o <<":", "0", "0">> : m \in ReportedMinutes }
    \cup { <<"1", ":", "1", "6", ":", "0", "0">>, <<"L", "I", "V", "E">> }

\* a search result: its link (its place in the ranking), and its length
\* string when the service gives one
Videos ==
    [has_length : {TRUE}, length : VideoLengths]
    \cup { [has_length |-> FALSE, length |-> <<>>] }

\* video.get("length", "0:00")
LengthOf(video) ==
    IF video.has_length THEN video.length ELSE <<"0", ":", "0", "0">>

\* the window without its ends: 15 < mins < 20
InWindowExclusive(mins) == MinMinutes < mins /\ mins < MaxMinutes

\* 15 <= mins <= 20
InWindow(mins) == MinMinutes <= mins /\ mins <= MaxMinutes

\* sync_search: the loop over video_results from element i on
RECURSIVE ScanVideos(_, _)
ScanVideos(video_results, i) ==
    IF i > Len(video_results) THEN Return("None", <<>>)
    ELSE LET prefix == BeforeColon(LengthOf(video_results[i]))
         IN  IF ~IntOk(prefix) THEN Raise("ValueError")
             ELSE IF InWindow(IntOf(prefix))
             THEN Return("dict", <<[url |-> i, title |-> i,
                                    duration |-> IntOf(prefix)]>>)
             ELSE ScanVideos(video_results, i + 1)

\* -------------------------------------------------------------------- state
VARIABLES
    op,           \* the operation in progress, "none" between requests
    pc,           \* "idle", "await" (suspended on the completion call), "done"
    args,         \* the caller's arguments
    max_retries,  \* _call_llm's parameter
    attempt,      \* _call_llm's retry counter
    calls,        \* completion calls made for this request
    hist,         \* what the service did on each call: "raise", or TextClass
    raw,          \* message.content of the answer being handled
    text,         \* the text handed to json.loads
    doc,          \* what json.loads returned, NoDoc if nothing
    llm_ret,      \* what _call_llm returned, NoDoc if it has not
    result,       \* what the operation returned or raised
    videos,       \* the search service's video_results
    tool,         \* handle_call_tool's name and arguments, NoTool without it
    reply,        \* what handle_call_tool returned
    tasks         \* the requests running concurrently on one QuizGen

vars == <<op, pc, args, max_retries, attempt, calls, hist, raw, text, doc,
          llm_ret, result, videos, tool, reply, tasks>>

Titles == {"Intro to Loops", "Graphs"}
Problems == {"reverse a list", "sum a list"}
Skeletons == {"def rev(x): pass", "def f(x): pass"}

NoArgs == [title |-> "", problem_statement |-> "", skeleton_code |-> "",
           duration_minutes |-> 0, num_questions |-> 0]

\* the durations a quiz may be asked for, in minutes
Durations == {-6, 0, 4, 5, 9, 10, 23}

Max(a, b) == IF a >= b THEN a ELSE b

\* the quotient alone, without the floor of one question
NumQuestionsUnfloored(duration_minutes) == duration_minutes \div 5

\* generate_quiz: num_questions = max(1, duration_minutes // 5)
NumQuestions(duration_minutes) == Max(1, duration_minutes \div 5)

LLMOps == {"course_llm", "quiz_llm", "course", "quiz"}

\* the empty payload of each _call_llm: {} in CourseGenerator, [] in QuizGen
EmptyPayload(o) == IF o \in {"course_llm", "course"} THEN EmptyDict ELSE EmptyList

\* the documents the service may write for each operation
DocsFor(o) ==
    CASE o \in {"course_llm", "course"} ->
            CourseObjects \cup Scalars
            \cup { EmptyList, JsonValue("array", {}, {}, <<StringItem>>) }
      [] o \in {"quiz_llm", "quiz"} ->
            ArraysOf(QuestionItems) \cup Scalars
            \cup { EmptyDict, JsonValue("object", {"questions"}, {}, <<>>) }
      [] o = "homework" ->
            ArraysOf(HomeworkItems) \cup Scalars
            \cup { EmptyDict, JsonValue("object", {"problems"}, {}, <<>>) }
      [] OTHER -> SolutionObjects \cup Scalars \cup { EmptyList }

\* what the caller of _call_llm does with its return value
AfterCallLLM(o, ret, a) ==
    CASE o = "course" -> CourseResult(ret, a.title)
      [] o = "quiz" -> QuizResult(ret, a.title)
      [] OTHER -> Return("json", <<>>)

\* the requests of the concurrent run on one QuizGen, none of them started.
\* Each request is a coroutine of its own: its arguments and the locals of
\* its _call_llm (attempt among them) live in its frame; the instance holds
\* the client and nothing else.
Requests == {"A", "B"}
IdleTask ==
    [pc |-> "idle", video_title |-> "", attempt |-> 0, calls |-> 0,
     in_flight |-> 0, answers |-> <<>>, result |-> NoResult]
NoTasks == [r \in Requests |-> IdleTask]

\* --------------------------------------------------------------- dispatcher
\* the tools handle_call_tool knows, and a name it does not
ToolNames == {"generate_course", "find_video", "generate_quiz",
              "get_transcript", "generate_homework", "generate_solution"}
UnknownNames == {"grade_quiz"}

\* the keys each branch reads from arguments, in the order it reads them
RequiredKeys(name) ==
    CASE name = "generate_course" -> <<"title", "sessions", "topics">>
      [] name = "find_video" -> <<"topic">>
      [] name = "generate_quiz" -> <<"title", "duration">>
      [] name = "get_transcript" -> <<"url">>
      [] name = "generate_homework" -> <<"transcript">>
      [] name = "generate_solution" -> <<"problem", "skeleton">>
      [] OTHER -> <<>>

\* the operation each branch invokes
Branch(name) ==
    CASE name = "generate_course" -> "course"
      [] name = "find_video" -> "video"
      [] name = "generate_quiz" -> "quiz"
      [] name = "get_transcript" -> "transcript"
      [] name = "generate_homework" -> "homework"
      [] name = "generate_solution" -> "solution"
      [] OTHER -> "none"

Range(s) == { s[i] : i \in 1..Len(s) }

\* arguments[key] of the first key the branch reads that the bundle lacks
MissingKeys(name, arguments) ==
    SelectSeq(RequiredKeys(name), LAMBDA k : k \notin arguments)

ToolCall(name, arguments) ==
    [called |-> TRUE, name |-> name, arguments |-> arguments]
NoTool == [called |-> FALSE, name |-> "", arguments |-> {}]

\* the bundles a call may carry: any part of the keys its branch reads
Bundles(name) ==
    IF name \in ToolNames THEN SUBSET Range(RequiredKeys(name))
    ELSE SUBSET {"title"}

\* who may invoke operation o: a handler of main.py, or the branch of
\* handle_call_tool that found all the keys it reads
CallersOf(o) ==
    {NoTool} \cup { ToolCall(n, Range(RequiredKeys(n))) :
                      n \in { m \in ToolNames : Branch(m) = o } }

RaiseWith(exception, detail) ==
    [kind |-> "raise", what |-> exception, items |-> detail]

\* str(e): the key in quotes for a KeyError, the message the exception was
\* built with, or the library's own message
StrOf(e) ==
    CASE e.what = "KeyError" -> <<"'">> \o e.items \o <<"'">>
      [] e.what = "ValueError" /\ e.items # <<>> -> e.items
      [] OTHER -> <<"str(", e.what, ")">>

TextContent(body) == [type |-> "text", text |-> body]
Returned(content) == [raised |-> FALSE, content |-> content]
Escaped(e) == [raised |-> TRUE, content |-> <<>>]
NoReply == Returned(<<>>)

\* json.dumps of a dictionary with these keys around value
JsonText(keys, value) == <<"{">> \o keys \o <<value, "}">>

\* to_json(obj): a model, a list or a dictionary as JSON, anything else
\* (None) as the JSON string of str(obj)
ToJson(r) ==
    IF r.what \in {"ProblemSolution", "list", "dict"}
    THEN <<"json", r.what>>
    ELSE <<"json", "str", r.what>>

\* str(result).strip() if result else ""
TranscriptText(transcript) ==
    IF transcript = <<>> THEN <<>> ELSE Strip(transcript)

ResponseKeys == <<"quiz_data", "instructions", "format_preference">>

\* the text of the branch's TextContent for what the operation returned
ToolText(name, r) ==
    CASE name \in {"generate_course", "generate_quiz"} ->
            JsonText(ResponseKeys, r.what)
      [] name = "find_video" -> <<"json", r.what>>
      [] name = "get_transcript" ->
            JsonText(<<"transcript", "status", "message">>,
                     IF TranscriptText(r.items) # <<>>
                     THEN "success" ELSE "failed")
      [] OTHER -> ToJson(r)

ErrorText(name, e) == <<"Error executing ", name, ": ">> \o StrOf(e)

\* the handler catches only ValueError
HandleExceptionNarrow(name, e) ==
    IF e.what = "ValueError"
    THEN Returned(<<TextContent(ErrorText(name, e))>>)
    ELSE Escaped(e)

\* handle_call_tool: except Exception as e -> one text item
HandleException(name, e) == Returned(<<TextContent(ErrorText(name, e))>>)

\* handle_call_tool once its branch has run: r is what the operation
\* returned or raised
ToolReply(name, r) ==
    IF r.kind = "raise" THEN HandleException(name, r)
    ELSE Returned(<<TextContent(ToolText(name, r))>>)

\* the caller's part of a step: handle_call_tool runs on to its return as
\* soon as the operation it awaits is done; the handlers of main.py pass
\* the result on as it is
Replies ==
    reply' = IF pc' = "done" /\ tool'.called
             THEN ToolReply(tool'.name, result')
             ELSE NoReply

\* the operation o is entered, by one of its callers
Called(o) ==
    /\ \E t \in CallersOf(o) : tool' = t
    /\ Replies
    /\ UNCHANGED tasks

\* the operation goes on for the caller that awaits it
Resumed ==
    /\ UNCHANGED <<tool, tasks>>
    /\ Replies

Init ==
    /\ tool = NoTool /\ reply = NoReply /\ tasks = NoTasks
    /\ op = "none" /\ pc = "idle" /\ args = NoArgs
    /\ max_retries = DefaultMaxRetries /\ attempt = 0 /\ calls = 0
    /\ hist = <<>> /\ raw = <<>> /\ text = <<>> /\ doc = NoDoc
    /\ llm_ret = NoDoc /\ result = NoResult /\ videos = <<>>

\* ------------------------------------------------------------------ actions
\* the loop guard off by one: while attempt < max_retries
LoopContinuesStrict(a, mr) == a < mr

\* while attempt <= max_retries
LoopContinues(a, mr) == a <= mr

\* _call_llm returns ret, and its caller runs on to its own end
Finish(o, ret, a) ==
    /\ llm_ret' = ret
    /\ result' = AfterCallLLM(o, ret, a)
    /\ pc' = "done"

\* a direct call of CourseGenerator._call_llm or QuizGen._call_llm
CallLLM(o, mr) ==
    /\ pc = "idle"
    /\ op' = o /\ max_retries' = mr
    /\ IF LoopContinues(0, mr)
       THEN pc' = "await" /\ UNCHANGED <<llm_ret, result>>
       ELSE Finish(o, EmptyPayload(o), args)
    /\ UNCHANGED <<args, attempt, calls, hist, raw, text, doc, videos>>
    /\ Called(o)

\* generate_course_structure(title, ...) and generate_quiz(video_title,
\* duration_minutes) up to their await in _call_llm(prompt), max_retries at
\* its default; the quiz prompt asks for num_questions questions
Generate(o, title) ==
    /\ pc = "idle"
    /\ op' = o /\ max_retries' = DefaultMaxRetries
    /\ \E duration_minutes \in IF o = "quiz" THEN Durations ELSE {0} :
         args' = [NoArgs EXCEPT
                    !.title = title,
                    !.duration_minutes = duration_minutes,
                    !.num_questions = IF o = "quiz"
                                      THEN NumQuestions(duration_minutes)
                                      ELSE 0]
    /\ IF LoopContinues(0, DefaultMaxRetries)
       THEN pc' = "await" /\ UNCHANGED <<llm_ret, result>>
       ELSE Finish(o, EmptyPayload(o), args')
    /\ UNCHANGED <<attempt, calls, hist, raw, text, doc, videos>>
    /\ Called(o)

\* generate_homework(transcript) up to its await
GenerateHomework ==
    /\ pc = "idle"
    /\ op' = "homework" /\ pc' = "await"
    /\ UNCHANGED <<args, max_retries, attempt, calls, hist, raw, text, doc,
                   llm_ret, result, videos>>
    /\ Called("homework")

\* generate_solution(problem_statement, skeleton_code) up to its await
GenerateSolution(problem_statement, skeleton_code) ==
    /\ pc = "idle"
    /\ op' = "solution" /\ pc' = "await"
    /\ args' = [NoArgs EXCEPT !.problem_statement = problem_statement,
                              !.skeleton_code = skeleton_code]
    /\ UNCHANGED <<max_retries, attempt, calls, hist, raw, text, doc,
                   llm_ret, result, videos>>
    /\ Called("solution")

\* the completion call raises
Raised ==
    /\ calls' = calls + 1
    /\ hist' = Append(hist, "raise")
    /\ raw' = <<>> /\ text' = <<>> /\ doc' = NoDoc

\* the completion call answers raw_text, sanitized to sanitized
Answered(raw_text, sanitized) ==
    /\ calls' = calls + 1
    /\ hist' = Append(hist, TextClass(raw_text))
    /\ raw' = raw_text /\ text' = sanitized

\* a service error handled like a decode error: counted, and called again
LLMRaisesRetried ==
    /\ pc = "await" /\ op \in LLMOps
    /\ Raised
    /\ attempt' = attempt + 1
    /\ IF LoopContinues(attempt + 1, max_retries)
       THEN pc' = "await" /\ UNCHANGED <<llm_ret, result>>
       ELSE Finish(op, EmptyPayload(op), args)
    /\ UNCHANGED <<op, args, max_retries, videos>>
    /\ Resumed

\* _call_llm: except Exception -> return the empty payload
LLMRaises ==
    /\ pc = "await" /\ op \in LLMOps
    /\ Raised
    /\ Finish(op, EmptyPayload(op), args)
    /\ UNCHANGED <<op, args, max_retries, attempt, videos>>
    /\ Resumed

\* _call_llm: the answer parses, return json.loads(text)
LLMParses ==
    /\ pc = "await" /\ op \in LLMOps
    /\ \E raw_text \in RawTexts :
         LET sanitized == StripCodeFences(raw_text)
         IN  /\ JsonLoadsOk(sanitized)
             /\ Answered(raw_text, sanitized)
             /\ \E d \in DocsFor(op) : doc' = d /\ Finish(op, d, args)
    /\ UNCHANGED <<op, args, max_retries, attempt, videos>>
    /\ Resumed

\* _call_llm: except json.JSONDecodeError -> attempt += 1, and the loop
\* either calls again or ends with the empty payload. The locals of the
\* failed iteration are dead once the loop calls again.
LLMDecodeError ==
    /\ pc = "await" /\ op \in LLMOps
    /\ \E raw_text \in RawTexts :
         LET sanitized == StripCodeFences(raw_text)
         IN  /\ ~JsonLoadsOk(sanitized)
             /\ attempt' = attempt + 1
             /\ calls' = calls + 1
             /\ hist' = Append(hist, TextClass(raw_text))
             /\ doc' = NoDoc
             /\ IF LoopContinues(attempt + 1, max_retries)
                THEN /\ pc' = "await"
                     /\ raw' = <<>> /\ text' = <<>>
                     /\ UNCHANGED <<llm_ret, result>>
                ELSE /\ raw' = raw_text /\ text' = sanitized
                     /\ Finish(op, EmptyPayload(op), args)
    /\ UNCHANGED <<op, args, max_retries, videos>>
    /\ Resumed

\* generate_homework: the completion call raises
HomeworkRaises ==
    /\ pc = "await" /\ op = "homework"
    /\ Raised
    /\ result' = HomeworkResult(FALSE, NoDoc) /\ pc' = "done"
    /\ UNCHANGED <<op, args, max_retries, attempt, llm_ret, videos>>
    /\ Resumed

\* generate_homework: the completion call answers
HomeworkAnswers ==
    /\ pc = "await" /\ op = "homework"
    /\ \E raw_text \in RawTexts :
         LET sanitized == RemoveJsonFence(raw_text)
         IN  /\ Answered(raw_text, sanitized)
             /\ IF JsonLoadsOk(sanitized)
                THEN \E d \in DocsFor(op) :
                        doc' = d /\ result' = HomeworkResult(TRUE, d)
                ELSE doc' = NoDoc /\ result' = HomeworkResult(FALSE, NoDoc)
    /\ pc' = "done"
    /\ UNCHANGED <<op, args, max_retries, attempt, llm_ret, videos>>
    /\ Resumed

\* generate_solution: the completion call raises
SolutionRaises ==
    /\ pc = "await" /\ op = "solution"
    /\ Raised
    /\ result' = SolutionResult(FALSE, NoDoc, args.problem_statement,
                                args.skeleton_code)
    /\ pc' = "done"
    /\ UNCHANGED <<op, args, max_retries, attempt, llm_ret, videos>>
    /\ Resumed

\* generate_solution: the completion call answers
SolutionAnswers ==
    /\ pc = "await" /\ op = "solution"
    /\ \E raw_text \in RawTexts :
         LET sanitized == RemoveJsonFence(raw_text)
         IN  /\ Answered(raw_text, sanitized)
             /\ IF JsonLoadsOk(sanitized)
                THEN \E d \in DocsFor(op) :
                        /\ doc' = d
                        /\ result' = SolutionResult(TRUE, d,
                                        args.problem_statement,
                                        args.skeleton_code)
                ELSE /\ doc' = NoDoc
                     /\ result' = SolutionResult(FALSE, NoDoc,
                                        args.problem_statement,
                                        args.skeleton_code)
    /\ pc' = "done"
    /\ UNCHANGED <<op, args, max_retries, attempt, llm_ret, videos>>
    /\ Resumed

\* get_video(query): one search, then the scan of its results
GetVideo ==
    /\ pc = "idle"
    /\ \E video_results \in SeqsUpTo(Videos, MaxVideos) :
         /\ videos' = video_results
         /\ result' = ScanVideos(video_results, 1)
    /\ op' = "video" /\ pc' = "done"
    /\ UNCHANGED <<args, max_retries, attempt, calls, hist, raw, text, doc,
                   llm_ret>>
    /\ Called("video")

\* get_video(query): the search itself raises, and nothing catches it
GetVideoFails ==
    /\ pc = "idle"
    /\ op' = "video" /\ pc' = "done"
    /\ result' = Raise("SearchError")
    /\ UNCHANGED <<args, max_retries, attempt, calls, hist, raw, text, doc,
                   llm_ret, videos>>
    /\ Called("video")

\* the recordings generate_transcript may end with: nothing (a failure
\* is caught and gives ""), blanks only, or text
Transcripts == { <<>>, <<"SP">>, <<"X">>, <<"SP", "X", "NL">> }

\* generate_transcript(youtube_url): synchronous, every exception caught
GenerateTranscript ==
    /\ pc = "idle"
    /\ op' = "transcript" /\ pc' = "done"
    /\ \E transcript \in Transcripts : result' = Return("str", transcript)
    /\ UNCHANGED <<args, max_retries, attempt, calls, hist, raw, text, doc,
                   llm_ret, videos>>
    /\ Called("transcript")

\* handle_call_tool(name, arguments) when no operation is invoked: the
\* branch reads a key the bundle lacks, or no branch knows the name
HandleCallToolRaises(name, arguments) ==
    /\ pc = "idle"
    /\ name \notin ToolNames \/ MissingKeys(name, arguments) # <<>>
    /\ tool' = ToolCall(name, arguments)
    /\ op' = "none" /\ pc' = "done"
    /\ result' = IF name \in ToolNames
                 THEN RaiseWith("KeyError",
                                <<Head(MissingKeys(name, arguments))>>)
                 ELSE RaiseWith("ValueError", <<"Unknown tool: ", name>>)
    /\ Replies
    /\ UNCHANGED <<args, max_retries, attempt, calls, hist, raw, text, doc,
                   llm_ret, videos, tasks>>

\* the response is sent; the next request starts from a fresh invocation
Respond ==
    /\ pc = "done"
    /\ op' = "none" /\ pc' = "idle" /\ args' = NoArgs
    /\ max_retries' = DefaultMaxRetries /\ attempt' = 0 /\ calls' = 0
    /\ hist' = <<>> /\ raw' = <<>> /\ text' = <<>> /\ doc' = NoDoc
    /\ llm_ret' = NoDoc /\ result' = NoResult /\ videos' = <<>>
    /\ tool' = NoTool /\ reply' = NoReply
    /\ UNCHANGED tasks

Next ==
    \/ \E o \in {"course_llm", "quiz_llm"}, mr \in (-1)..MaxRetries :
          CallLLM(o, mr)
    \/ \E o \in {"course", "quiz"}, title \in Titles : Generate(o, title)
    \/ GenerateHomework
    \/ \E p \in Problems, s \in Skeletons : GenerateSolution(p, s)
    \/ LLMRaises
    \/ LLMParses
    \/ LLMDecodeError
    \/ HomeworkRaises
    \/ HomeworkAnswers
    \/ SolutionRaises
    \/ SolutionAnswers
    \/ GetVideo
    \/ GetVideoFails
    \/ GenerateTranscript
    \/ \E name \in ToolNames \cup UnknownNames :
          \E arguments \in Bundles(name) : HandleCallToolRaises(name, arguments)
    \/ Respond

Spec == Init /\ [][Next]_vars

\* ------------------------------------------------------ concurrent requests
\* Two make_quiz requests on the one module-level QuizGen, interleaved at
\* their awaits on the completion service, which answers each call in its
\* own time and with whatever it likes.
ConcTexts ==
    { <<"JA", "JB">>, Fenced(<<"json">>, <<"JA", "NL", "JB">>), <<"X">>,
      <<"JA">> }
ConcItems ==
    { [t |-> "object", keys |-> QuestionFields, bad |-> {}],
      [t |-> "object", keys |-> QuestionFields \ {"question"}, bad |-> {}] }
ConcDocs ==
    { JsonValue("array", {}, {}, s) : s \in SeqsUpTo(ConcItems, 1) }
    \cup { EmptyDict }

\* one completion call's outcome as its caller met it
Answer(outcome, d) == [outcome |-> outcome, doc |-> d]

\* the counter kept on the instance: every request counts on the same one
RetryCounterShared(t, r) ==
    LET other == CHOOSE q \in Requests : q # r
    IN  t[r].attempt + t[other].attempt

\* attempt, a local of request r's _call_llm
RetryCounter(t, r) == t[r].attempt

\* request r's _call_llm returns ret, and generate_quiz runs on to its end
TaskFinish(r, answer, ret) ==
    tasks' = [tasks EXCEPT
                ![r].pc = "done",
                ![r].in_flight = 0,
                ![r].answers = Append(@, answer),
                ![r].result = QuizResult(ret, tasks[r].video_title)]

\* make_quiz(title, duration): generate_quiz up to the await of its first
\* completion call
MakeQuiz(r, title) ==
    /\ tasks[r].pc = "idle"
    /\ LoopContinues(0, DefaultMaxRetries)
    /\ tasks' = [tasks EXCEPT ![r] = [IdleTask EXCEPT
                                        !.pc = "await",
                                        !.video_title = title,
                                        !.calls = 1,
                                        !.in_flight = 1]]
    /\ UNCHANGED <<op, pc, args, max_retries, attempt, calls, hist, raw, text,
                   doc, llm_ret, result, videos, tool, reply>>

\* the call of request r raises: except Exception -> return []
TaskRaises(r) ==
    /\ tasks[r].pc = "await"
    /\ TaskFinish(r, Answer("raise", NoDoc), EmptyList)
    /\ UNCHANGED <<op, pc, args, max_retries, attempt, calls, hist, raw, text,
                   doc, llm_ret, result, videos, tool, reply>>

\* the answer to request r parses: return json.loads(text)
TaskParses(r) ==
    /\ tasks[r].pc = "await"
    /\ \E raw_text \in ConcTexts, d \in ConcDocs :
         /\ JsonLoadsOk(StripCodeFences(raw_text))
         /\ TaskFinish(r, Answer("parsed", d), d)
    /\ UNCHANGED <<op, pc, args, max_retries, attempt, calls, hist, raw, text,
                   doc, llm_ret, result, videos, tool, reply>>

\* the answer to request r does not parse: attempt += 1, and the loop of
\* request r either calls again or ends with []
TaskDecodeError(r) ==
    /\ tasks[r].pc = "await"
    /\ \E raw_text \in ConcTexts :
         /\ ~JsonLoadsOk(StripCodeFences(raw_text))
         /\ LET counted == [tasks EXCEPT ![r].attempt = @ + 1]
            IN  IF LoopContinues(RetryCounter(counted, r), DefaultMaxRetries)
                THEN tasks' = [counted EXCEPT
                                 ![r].answers =
                                     Append(@, Answer("invalid", NoDoc)),
                                 ![r].calls = @ + 1]
                ELSE tasks' = [counted EXCEPT
                                 ![r].pc = "done",
                                 ![r].in_flight = 0,
                                 ![r].answers =
                                     Append(@, Answer("invalid", NoDoc)),
                                 ![r].result =
                                     QuizResult(EmptyList,
                                                tasks[r].video_title)]
    /\ UNCHANGED <<op, pc, args, max_retries, attempt, calls, hist, raw, text,
                   doc, llm_ret, result, videos, tool, reply>>

NextConc ==
    \/ \E r \in Requests, title \in Titles : MakeQuiz(r, title)
    \/ \E r \in Requests : TaskRaises(r)
    \/ \E r \in Requests : TaskParses(r)
    \/ \E r \in Requests : TaskDecodeError(r)

SpecConc == Init /\ [][NextConc]_vars

\* ------------------------------------------------------------------- claims
Min(a, b) == IF a <= b THEN a ELSE b
Indices(s) == 1..Len(s)

\* the number of "invalid" answers before the first other one
RECURSIVE LeadingInvalid(_)
LeadingInvalid(h) ==
    IF h = <<>> \/ Head(h) # "invalid" THEN 0 ELSE 1 + LeadingInvalid(Tail(h))

\* the service answered only with JSON (bare or fenced) or with text that
\* holds no JSON document, and never raised
StubAnswers(h) == \A i \in Indices(h) : h[i] \in {"invalid", "valid"}

\* C1: a _call_llm of CourseGenerator or QuizGen with max_retries >= 0 never
\* makes more than max_retries + 1 completion calls; against a service that
\* never raises and answers invalid JSON on its first N calls and valid JSON
\* afterwards, it has made exactly min(N + 1, max_retries + 1) calls when it
\* returns: it stops at the first answer that parses.
C1_CallCount ==
    (op \in LLMOps /\ max_retries >= 0) =>
       /\ calls <= max_retries + 1
       /\ (pc = "done" /\ StubAnswers(hist)) =>
             IF \E i \in Indices(hist) : hist[i] = "valid"
             THEN /\ calls = Min(LeadingInvalid(hist) + 1, max_retries + 1)
                  /\ doc # NoDoc /\ llm_ret = doc
             ELSE /\ calls = max_retries + 1
                  /\ LeadingInvalid(hist) >= max_retries + 1

\* C1 witness: with the default max_retries of 2, two invalid answers and a
\* valid third one: three calls, and the third answer is returned
C1_Witness ==
    /\ op = "quiz_llm" /\ pc = "done" /\ max_retries = DefaultMaxRetries
    /\ hist = <<"invalid", "invalid", "valid">>
    /\ calls = 3 /\ llm_ret = doc /\ doc # NoDoc

\* C2: when a completion call of _call_llm raises, on whichever attempt, it
\* is the last call of the request, the pipeline returns the empty payload
\* ({} for courses, [] for quizzes), and the error is not counted as a retry
C2_ServiceErrorAborts ==
    \A i \in Indices(hist) :
       (op \in LLMOps /\ hist[i] = "raise") =>
          /\ i = Len(hist) /\ calls = i
          /\ pc = "done"
          /\ llm_ret = EmptyPayload(op)
          /\ attempt = i - 1

\* C2 witness: the second call raises after one invalid answer
C2_Witness ==
    /\ op = "course_llm" /\ pc = "done" /\ max_retries = DefaultMaxRetries
    /\ hist = <<"invalid", "raise">> /\ llm_ret = EmptyDict

\* C3: generate_quiz always returns at least one question; whenever the
\* payload yields no usable question (service error, retries exhausted, an
\* empty array, or only elements that fail TopicQuestion validation) the
\* result is exactly the one placeholder question naming the video title,
\* with options A, B, C, D and correct answer "A".
C3_QuizNeverEmpty ==
    (op = "quiz" /\ pc = "done" /\ llm_ret.t = "array") =>
       /\ result.kind = "return"
       /\ result.items # <<>>
       /\ (\A i \in Indices(llm_ret.items) :
              ~Validates(llm_ret.items[i], QuestionFields))
          => /\ Len(result.items) = 1
             /\ result.items[1].src = "fallback"
             /\ result.items[1].question =
                   <<"What is the main concept of '", args.title, "'?">>
             /\ result.items[1].options = <<"A", "B", "C", "D">>
             /\ result.items[1].correct_answer = "A"

\* C4: generate_course_structure never returns a Course whose sessions
\* sequence is empty: a payload that yields no session makes it raise.
C4_CourseHasSessions ==
    (op = "course" /\ pc = "done" /\ result.kind = "return") =>
       result.items[1].sessions # <<>>

\* C5: generate_course_structure never fabricates a course: if a completion
\* call raises, or every one of the max_retries + 1 answers holds no JSON
\* document, it raises ValueError; it returns a Course only when the last
\* answer was parsed by json.loads.
C5_NoFabricatedCourse ==
    (op = "course" /\ pc = "done") =>
       /\ (\E i \in Indices(hist) : hist[i] = "raise")
             => result = Raise("ValueError")
       /\ (\A i \in Indices(hist) : hist[i] = "invalid")
             => result = Raise("ValueError") /\ calls = max_retries + 1
       /\ result.kind = "return"
             => /\ result.what = "Course"
                /\ doc # NoDoc /\ JsonLoadsOk(text)
                /\ Last(hist) \in {"valid", "odd"}

\* C5 witness: three answers without a JSON document, and the ValueError
C5_Witness ==
    /\ op = "course" /\ pc = "done"
    /\ hist = <<"invalid", "invalid", "invalid">>
    /\ result = Raise("ValueError")

\* C6: generate_solution never raises; when the completion call raises, or
\* its answer is not JSON, or the document fails ProblemSolution validation,
\* it returns the fallback: the caller's problem_statement and skeleton_code
\* and the solution_code "# Unable to generate solution".
C6_SolutionFallback ==
    (op = "solution" /\ pc = "done") =>
       /\ result.kind = "return" /\ result.what = "ProblemSolution"
       /\ Len(result.items) = 1
       /\ (\/ hist = <<"raise">>
           \/ hist = <<"invalid">>
           \/ ~JsonLoadsOk(text)
           \/ ~Validates(doc, SolutionFields))
          => result.items[1] =
                [src |-> "fallback",
                 problem_statement |-> args.problem_statement,
                 skeleton_code |-> args.skeleton_code,
                 solution_code |-> "# Unable to generate solution"]

\* C6 witness: generate_solution("reverse a list", "def rev(x): pass")
\* against a completion call that raises
C6_Witness ==
    /\ op = "solution" /\ pc = "done" /\ hist = <<"raise">>
    /\ args.problem_statement = "reverse a list"
    /\ args.skeleton_code = "def rev(x): pass"
    /\ result.kind = "return"
    /\ result.items[1].solution_code = "# Unable to generate solution"
    /\ result.items[1].problem_statement = "reverse a list"
    /\ result.items[1].skeleton_code = "def rev(x): pass"

\* the whole minutes of search result i: the integer before the first ":"
MinutesText(i) == BeforeColon(LengthOf(videos[i]))
Accepted(i) == IntOk(MinutesText(i)) /\ IntOf(MinutesText(i)) \in 15..20

\* C7: get_video scans the search results in the order returned and returns
\* the first one whose whole minutes m satisfy 15 <= m <= 20 (url, title and
\* m of that result), and None when no result is in the window or there are
\* no results. (Stated for scans that meet no length without an integer
\* before its first ":", on which int() raises.)
C7_FirstVideoInWindow ==
    (op = "video" /\ pc = "done" /\ result # Raise("SearchError")) =>
       /\ \A i \in Indices(videos) :
             ( /\ Accepted(i)
               /\ \A j \in 1..(i - 1) : IntOk(MinutesText(j)) /\ ~Accepted(j) )
             => result = Return("dict",
                           <<[url |-> i, title |-> i,
                              duration |-> IntOf(MinutesText(i))]>>)
       /\ (\A i \in Indices(videos) : IntOk(MinutesText(i)) /\ ~Accepted(i))
             => result = Return("None", <<>>)

\* C7 witness: lengths 10:00, 16:00, 25:00 give the second, 16-minute video
C7_Witness ==
    /\ op = "video" /\ pc = "done" /\ Len(videos) = 3
    /\ videos[1] = [has_length |-> TRUE, length |-> <<"1", "0", ":", "0", "0">>]
    /\ videos[2] = [has_length |-> TRUE, length |-> <<"1", "6", ":", "0", "0">>]
    /\ videos[3] = [has_length |-> TRUE, length |-> <<"2", "5", ":", "0", "0">>]
    /\ result = Return("dict", <<[url |-> 2, title |-> 2, duration |-> 16]>>)

\* the fields of the schema a sequence-shaped operation hydrates
SchemaOf(o) == IF o = "quiz" THEN QuestionFields ELSE HomeworkFields

\* C8: when quiz or homework generation parses an array in which some
\* elements satisfy the schema and some do not, it returns a list holding
\* every valid element, in payload order, and none of the invalid ones.
C8_InvalidItemsSkipped ==
    ( /\ op \in {"quiz", "homework"} /\ pc = "done" /\ doc.t = "array"
      /\ \E i \in Indices(doc.items) : Validates(doc.items[i], SchemaOf(op))
      /\ \E i \in Indices(doc.items) : ~Validates(doc.items[i], SchemaOf(op)) )
    => /\ result.kind = "return" /\ result.what = "list"
       /\ \A i \in Indices(doc.items) :
             Validates(doc.items[i], SchemaOf(op))
             <=> \E k \in Indices(result.items) : result.items[k].idx = i
       /\ \A k \in Indices(result.items) : \A m \in Indices(result.items) :
             k < m => result.items[k].idx < result.items[m].idx

\* C9: a sequence-shaped operation that fails (the completion call raises,
\* or no answer parsed as JSON) returns an empty sequence: [] from
\* QuizGen._call_llm, and an empty list from generate_homework, never a
\* value that is not a sequence and never an exception.
C9_EmptySequenceOnFailure ==
    (pc = "done" /\ doc = NoDoc) =>
       /\ op \in {"quiz_llm", "quiz"} => llm_ret = EmptyList
       /\ op = "homework" => result = Return("list", <<>>)

\* C10: in course, quiz, homework and solution generation, an answer that is
\* a JSON payload wrapped in a code fence, tagged json or untagged, is
\* sanitized to exactly the payload, which json.loads then parses.
C10_FencedPayloadExtracted ==
    \A tag \in FenceTags : \A p \in Payloads :
       ( /\ op \in {"course", "quiz", "homework", "solution"} /\ pc = "done"
         /\ raw = Fenced(tag, p) )
       => text = p /\ doc # NoDoc

\* C11: handle_call_tool lets no exception out. Whatever the name (known or
\* not), whatever keys the bundle holds, and whatever the invoked operation
\* returned or raised, the call returns exactly one item of type "text";
\* when anything was raised that text is "Error executing <name>: <message>"
\* with the requested name and str() of the exception.
C11_DispatcherContainsErrors ==
    (pc = "done" /\ tool.called) =>
       /\ ~reply.raised
       /\ Len(reply.content) = 1
       /\ reply.content[1].type = "text"
       /\ result.kind = "raise" =>
             reply.content[1].text =
                <<"Error executing ", tool.name, ": ">> \o StrOf(result)
       /\ result.kind # "raise" =>
             Head(reply.content[1].text) # "Error executing "

\* a tool call whose operation raised after calling the completion service
C11_Witness ==
    /\ pc = "done" /\ tool.called /\ tool.name = "generate_course"
    /\ calls > 0 /\ result.kind = "raise"
    /\ reply.content[1].text[2] = "generate_course"

\* C12: the number of questions the prompt of generate_quiz asks for is
\* max(1, d // 5) of its duration d: floor(d / 5) for every d >= 5 (the n
\* with 5n <= d < 5n + 5), and 1 for every shorter duration, zero and the
\* negative ones included.
C12_QuizSize ==
    (op = "quiz" /\ pc # "idle") =>
       LET d == args.duration_minutes
           n == args.num_questions
       IN  IF d >= 5 THEN 5 * n <= d /\ d < 5 * n + 5 ELSE n = 1

\* a quiz asked for a negative duration, its prompt sent with one question
C12_Witness ==
    /\ op = "quiz" /\ pc = "await"
    /\ args.duration_minutes < 0 /\ args.num_questions = 1

\* the operations that prompt the completion service
PromptedOps == {"course", "quiz", "homework", "solution"}

\* C13: every prompted operation retries a format failure: against a
\* service that never raises and answers text without a JSON document on
\* its first N calls, generate_homework and generate_solution, like course
\* and quiz generation, call again until an answer parses or the retry bound
\* is used up, min(N + 1, max_retries + 1) calls in all.
C13_FormatFailureRetried ==
    (op \in PromptedOps /\ pc = "done" /\ hist # <<>> /\ StubAnswers(hist)) =>
       calls = Min(LeadingInvalid(hist) + 1, max_retries + 1)

\* an element that is a mapping with well-typed values and holds the field
\* that identifies it: whatever it lacks is an optional field
OnlyOptionalMissing(item, identifying) ==
    item.t = "object" /\ item.bad = {} /\ identifying \subseteq item.keys

\* C14: hydration neither fails nor drops an element because an optional
\* field is absent. Every session object of a parsed course is hydrated,
\* each absent field at its default; every question that has its text is
\* in the quiz, with or without options and correct_answer; a homework
\* array whose problems all have their statement is returned whole, with or
\* without hints and skeleton_code.
C14_OptionalFieldsDefaulted ==
    /\ (op = "course" /\ pc = "done" /\ Truthy(llm_ret)
          /\ llm_ret.t = "object" /\ llm_ret.bad = {}
          /\ \A i \in Indices(llm_ret.items) :
                OnlyOptionalMissing(llm_ret.items[i], {})) =>
          /\ result.kind = "return"
          /\ Len(result.items[1].sessions) = Len(llm_ret.items)
          /\ \A i \in Indices(llm_ret.items) :
                LET session == result.items[1].sessions[i]
                    has(k) == k \in llm_ret.items[i].keys
                IN  /\ session.idx = i
                    /\ has("session_no") \/ session.session_no = "0"
                    /\ has("session_name") \/ session.session_name = ""
                    /\ has("learning_objectives")
                          \/ session.learning_objectives = "[]"
                    /\ has("topics") \/ session.topics = "[]"
    /\ (op = "quiz" /\ pc = "done" /\ llm_ret.t = "array") =>
          \A i \in Indices(llm_ret.items) :
             OnlyOptionalMissing(llm_ret.items[i], {"question"}) =>
                /\ result.kind = "return"
                /\ \E j \in Indices(result.items) :
                      result.items[j] = FromPayload(i)
    /\ (op = "homework" /\ pc = "done" /\ doc.t = "array"
          /\ \A i \in Indices(doc.items) :
                OnlyOptionalMissing(doc.items[i], {"problem_statement"})) =>
          result = Return("list", HydrateAll(doc.items))

\* the answers among s that did not parse
Invalid(s) == { i \in Indices(s) : s[i].outcome = "invalid" }

\* C15: two requests running concurrently on one QuizGen do not interfere.
\* Each counts its own format failures and nothing else; each makes at most
\* max_retries + 1 calls, one at a time (a call is in flight exactly while
\* the request is suspended, and every call before it has been answered);
\* it calls again only after an answer that did not parse; and its result
\* is what generate_quiz makes of its own last answer alone: the parsed
\* document, or [] after a service error or when the retries are used up.
C15_NoInterference ==
    \A r \in Requests :
       LET t == tasks[r]
           n == Len(t.answers)
       IN  /\ t.calls <= DefaultMaxRetries + 1
           /\ t.in_flight = IF t.pc = "await" THEN 1 ELSE 0
           /\ t.calls = n + t.in_flight
           /\ t.attempt = Cardinality(Invalid(t.answers))
           /\ \A i \in 1..(n - 1) : t.answers[i].outcome = "invalid"
           /\ t.pc = "await" => Invalid(t.answers) = Indices(t.answers)
           /\ t.pc = "done" =>
                 /\ n > 0
                 /\ t.answers[n].outcome = "invalid" =>
                       n = DefaultMaxRetries + 1
                 /\ t.result =
                       QuizResult(IF t.answers[n].outcome = "parsed"
                                  THEN t.answers[n].doc ELSE EmptyList,
                                  t.video_title)

\* both requests suspended on the completion service at once, one on its
\* second call and the other on its third
C15_Witness ==
    /\ tasks["A"].pc = "await" /\ tasks["A"].attempt = 1
    /\ tasks["B"].pc = "await" /\ tasks["B"].attempt = 2
    /\ tasks["A"].video_title # tasks["B"].video_title

=============================================================================
